---------------------------- MODULE Spec2Model ----------------------------
(***************************************************************************)
(* A model of the TOTP class of Open-OTP (src/index.js).                   *)
(*                                                                         *)
(* Strings are sequences of one-character strings.  The clock Date.now()   *)
(* is the variable now (milliseconds).  HMAC is not computed: the digest   *)
(* of a counter under the instance's key is an arbitrary but fixed choice  *)
(* (hmacTable), made when the instance is constructed, so that two         *)
(* counters may or may not have the same digest.  Everything after the     *)
(* digest (dynamic truncation, modulus, parsing, comparison, the window    *)
(* loop) is computed as the code computes it.                              *)
(***************************************************************************)
EXTENDS Integers, Sequences, FiniteSets, TLC

(***************************************************************************)
(* Bounds of the model.                                                    *)
(***************************************************************************)
MaxSecretLen == 2
MaxWindow == 1
MaxTicks == 2
MaxInputLen == 2

(***************************************************************************)
(* Defaults of the constructor's parameters.                               *)
(***************************************************************************)
DefaultWindow == 0
DefaultInterval == 30
DefaultOtpLength == 6
DefaultAlgorithm == "sha1"

VARIABLES
    engine,     \* the TOTP instance: its five fields, or NoEngine
    now,        \* Date.now(), in milliseconds
    hmacTable,  \* counter |-> id of the digest HMAC(key, counter)
    ctor,       \* the last call of the constructor and its outcome
    lastGen,    \* the last call of generateTOTP at this reading of the clock
    lastVer,    \* the last call of verifyTOTP at this reading of the clock
    digest,     \* SpecTrunc: the digest under truncation
    trunc       \* SpecTrunc: the outcome of the truncation

vars == <<engine, now, hmacTable, ctor, lastGen, lastVer, digest, trunc>>

(***************************************************************************)
(* Outcomes of a call: a returned value or a thrown error.                 *)
(***************************************************************************)
Return(v) == [kind |-> "return", value |-> v, error |-> "none"]
Throw(e) == [kind |-> "throw", value |-> "none", error |-> e]

(***************************************************************************)
(* Characters.                                                             *)
(***************************************************************************)
Digits == <<"0", "1", "2", "3", "4", "5", "6", "7", "8", "9">>
DigitSet == {Digits[i] : i \in 1..10}
DigitValue(ch) == (CHOOSE i \in 1..10 : Digits[i] = ch) - 1
UpperCase ==
    {"A", "B", "C", "D", "E", "F", "G", "H", "I", "J", "K", "L", "M",
     "N", "O", "P", "Q", "R", "S", "T", "U", "V", "W", "X", "Y", "Z"}
Base32Chars == UpperCase \cup {"2", "3", "4", "5", "6", "7"}

RECURSIVE Strs(_, _)
Strs(chars, n) ==
    IF n = 0 THEN {<<>>}
    ELSE LET shorter == Strs(chars, n - 1)
         IN shorter \cup {Append(s, ch) : s \in shorter, ch \in chars}

(***************************************************************************)
(* /^[A-Z2-7]+=*$/.test(secret): a scan of the text, left to right, in     *)
(* the states of the expression: before the first character, inside        *)
(* [A-Z2-7]+, inside =*.  Without the m flag $ is the end of the text.     *)
(***************************************************************************)
RECURSIVE regexScan(_, _, _)
regexScan(text, i, st) ==
    IF i > Len(text) THEN st \in {"data", "pad"}
    ELSE IF text[i] \in Base32Chars /\ st \in {"start", "data"}
         THEN regexScan(text, i + 1, "data")
    ELSE IF text[i] = "=" /\ st \in {"data", "pad"}
         THEN regexScan(text, i + 1, "pad")
    ELSE FALSE

\* The same scan without the + of [A-Z2-7]+ (a text of padding only, or
\* the empty text, passes).
isValidSecretNoPlus(secret) ==
    \A i \in 1..Len(secret) :
        /\ secret[i] \in Base32Chars \cup {"="}
        /\ (secret[i] = "=" => \A j \in i..Len(secret) : secret[j] = "=")

_isValidSecret(secret) == regexScan(secret, 1, "start")


(***************************************************************************)
(* base32.decode(this.secret): the characters up to the first = are taken  *)
(* as 5-bit groups, most significant bit first, and every complete group   *)
(* of 8 bits is a byte of the key.  A character outside the alphabet is an *)
(* error of the decoder.                                                   *)
(***************************************************************************)
Base32Alphabet ==
    <<"A", "B", "C", "D", "E", "F", "G", "H", "I", "J", "K", "L", "M",
      "N", "O", "P", "Q", "R", "S", "T", "U", "V", "W", "X", "Y", "Z",
      "2", "3", "4", "5", "6", "7">>
Base32Value(ch) == (CHOOSE i \in 1..32 : Base32Alphabet[i] = ch) - 1

RECURSIVE quintetBits(_, _)
quintetBits(text, i) ==
    IF i > Len(text) \/ text[i] = "=" THEN <<>>
    ELSE LET q == Base32Value(text[i])
         IN <<(q \div 16) % 2, (q \div 8) % 2, (q \div 4) % 2,
              (q \div 2) % 2, q % 2>> \o quintetBits(text, i + 1)

base32Decode(text) ==
    IF \E i \in 1..Len(text) :
          /\ text[i] \notin Base32Chars \cup {"="}
          /\ \A j \in 1..(i - 1) : text[j] # "="
    THEN Throw("Error")
    ELSE LET bits == quintetBits(text, 1)
             byte(j) == bits[8 * j - 7] * 128 + bits[8 * j - 6] * 64
                        + bits[8 * j - 5] * 32 + bits[8 * j - 4] * 16
                        + bits[8 * j - 3] * 8 + bits[8 * j - 2] * 4
                        + bits[8 * j - 1] * 2 + bits[8 * j]
         IN Return([j \in 1..(Len(bits) \div 8) |-> byte(j)])

\* The texts of the model, and the decoder on each of them, computed once.
SecretChars == {"A", "a", "="}
SecretTexts == Strs(SecretChars, MaxSecretLen)
ExampleSecret == <<"A", "A">>
KeyTable == [s \in SecretTexts |-> base32Decode(s)]

(***************************************************************************)
(* Buffer.alloc(8) and buffer.writeBigUInt64BE(counter): the counter as 8  *)
(* bytes, most significant first.  Node throws a RangeError for a value    *)
(* outside 0 .. 2^64 - 1; the model's counters stay far below 2^64, so     *)
(* only the lower end can be crossed.                                      *)
(***************************************************************************)
RECURSIVE bigEndian(_, _)
bigEndian(value, n) ==
    IF n = 0 THEN <<>>
    ELSE Append(bigEndian(value \div 256, n - 1), value % 256)

writeBigUInt64BE(counter) ==
    IF counter < 0 THEN Throw("RangeError")
    ELSE Return(bigEndian(counter, 8))

RECURSIVE bigEndianValue(_, _)
bigEndianValue(bytes, n) ==
    IF n = 0 THEN 0 ELSE bigEndianValue(bytes, n - 1) * 256 + bytes[n]

\* The counters of the model (those of the clock's readings under the
\* default interval, and a window to either side), and the writing and the
\* reading back of each of them, computed once.
CounterRange == (0 - MaxWindow)..(MaxTicks + MaxWindow)
BufferTable == [c \in CounterRange |-> writeBigUInt64BE(c)]
BufferValue ==
    [b \in {BufferTable[c].value : c \in {x \in CounterRange : x >= 0}} |->
        bigEndianValue(b, 8)]

(***************************************************************************)
(* crypto.createHmac(algorithm, key).update(buffer).digest().  The length  *)
(* of the digest is the algorithm's; its bytes are those of one of two     *)
(* digests, chosen per counter by hmacTable.  Digest 1 truncates to 1      *)
(* (low nibble of the last byte 10, bytes 80 00 00 01 at 10..13), digest 2 *)
(* to 11 (low nibble 15, bytes 00 00 00 0B at 15..18).                     *)
(***************************************************************************)
Algorithms == {"sha1", "sha256", "sha512"}
DigestLen(algorithm) ==
    CASE algorithm = "sha1" -> 20
      [] algorithm = "sha256" -> 32
      [] algorithm = "sha512" -> 64
DigestIds == {1, 2}
Digest(algorithm, id) ==
    LET n == DigestLen(algorithm)
    IN [i \in 0..(n - 1) |->
          IF id = 1
          THEN CASE i = n - 1 -> 90
                 [] i = 10 -> 128
                 [] i \in {11, 12} -> 0
                 [] i = 13 -> 1
                 [] OTHER -> 255
          ELSE CASE i = n - 1 -> 31
                 [] i \in {15, 16, 17} -> 0
                 [] i = 18 -> 11
                 [] OTHER -> 170]

\* The digest of the counter written in buffer: its algorithm and its id.
hmacDigest(table, algorithm, key, buffer) == <<algorithm, table[BufferValue[buffer]]>>

(***************************************************************************)
(* The bitwise operators of JavaScript on 32-bit integers.                 *)
(***************************************************************************)
RECURSIVE BitAnd(_, _)
BitAnd(a, b) ==
    IF a = 0 \/ b = 0 THEN 0
    ELSE 2 * BitAnd(a \div 2, b \div 2) + (IF a % 2 = 1 /\ b % 2 = 1 THEN 1 ELSE 0)

RECURSIVE BitOrNat(_, _)
BitOrNat(a, b) ==
    IF a = 0 THEN b
    ELSE IF b = 0 THEN a
    ELSE 2 * BitOrNat(a \div 2, b \div 2) + (IF a % 2 = 1 \/ b % 2 = 1 THEN 1 ELSE 0)

\* a | b for a 32-bit a of either sign and b in 0 .. 2^31 - 1: the sign bit
\* of the result is a's.
BitOr(a, b) ==
    IF a >= 0 THEN BitOrNat(a, b)
    ELSE (BitOrNat((a + 2147483647) + 1, b) - 2147483647) - 1

\* x << n for x in 0 .. 2^(32-n) - 1: the bit that lands on bit 31 is the sign.
ShiftLeft(x, n) ==
    LET half == 2 ^ (31 - n)
    IN IF x < half THEN x * 2 ^ n ELSE (x - 2 * half) * 2 ^ n

\* a % b of JavaScript for b > 0: the result has the sign of a.
JsRem(a, b) ==
    IF a >= 0 THEN a % b
    ELSE LET m == a % b IN IF m = 0 THEN 0 ELSE m - b

(***************************************************************************)
(* Dynamic truncation (lines 60-65 of _generateTOTP).  A digest is a       *)
(* function on 0 .. length - 1, as digest[i] of the code is.               *)
(***************************************************************************)
DigestLength(dg) == Cardinality(DOMAIN dg)

truncOffset(dg) == BitAnd(dg[DigestLength(dg) - 1], 15)

\* The same with the first byte masked by 0xff: its top bit becomes the sign.
binaryCodeFF(dg) ==
    LET offset == truncOffset(dg)
    IN BitOr(BitOr(BitOr(ShiftLeft(BitAnd(dg[offset], 255), 24),
                         ShiftLeft(BitAnd(dg[offset + 1], 255), 16)),
                   ShiftLeft(BitAnd(dg[offset + 2], 255), 8)),
             BitAnd(dg[offset + 3], 255))

binaryCode(dg) ==
    LET offset == truncOffset(dg)
    IN BitOr(BitOr(BitOr(ShiftLeft(BitAnd(dg[offset], 127), 24),
                         ShiftLeft(BitAnd(dg[offset + 1], 255), 16)),
                   ShiftLeft(BitAnd(dg[offset + 2], 255), 8)),
             BitAnd(dg[offset + 3], 255))

truncate(dg, otpLength) == JsRem(binaryCode(dg), 10 ^ otpLength)

\* The truncation of every digest of the model, computed once.
OtpLengths == {1, DefaultOtpLength}
CodeTable ==
    [a \in Algorithms, id \in DigestIds, len \in OtpLengths |->
        truncate(Digest(a, id), len)]

(***************************************************************************)
(* _generateTOTP(counter) on the instance e whose key has the digests of   *)
(* table.  The statements run in the order of the code: the decoding of    *)
(* the secret, the writing of the counter, the HMAC, the truncation.       *)
(***************************************************************************)
_generateTOTP(e, table, counter) ==
    LET key == KeyTable[e.secret]
        buffer == BufferTable[counter]
    IN IF key.kind = "throw" THEN key
       ELSE IF buffer.kind = "throw" THEN buffer
       ELSE LET dg == hmacDigest(table, e.algorithm, key.value, buffer.value)
            IN Return(CodeTable[dg[1], dg[2], e.otpLength])

\* BigInt(Math.floor(currentTime / 1000 / this.interval))
counterAt(e, currentTime) == currentTime \div (1000 * e.interval)

generateTOTP(e, table, currentTime) ==
    LET counter == counterAt(e, currentTime)
    IN [result |-> _generateTOTP(e, table, counter), tried |-> <<counter>>]

(***************************************************************************)
(* The argument of verifyTOTP: a value with its typeof.                    *)
(***************************************************************************)
StringInput(s) == [type |-> "string", str |-> s, num |-> 0]
NumberInput(n) == [type |-> "number", str |-> <<>>, num |-> n]
NullInput == [type |-> "object", str |-> <<>>, num |-> 0]

\* /^\d+$/.test(inputOTP): one or more characters, each a decimal digit.
RECURSIVE digitScan(_, _, _)
digitScan(text, i, some) ==
    IF i > Len(text) THEN some
    ELSE IF text[i] \in DigitSet THEN digitScan(text, i + 1, TRUE)
    ELSE FALSE

\* The format check without the regular expression: any string passes.
inputFormatOkAnyString(inputOTP) == inputOTP.type = "string"

inputFormatOk(inputOTP) ==
    inputOTP.type = "string" /\ digitScan(inputOTP.str, 1, FALSE)

\* parseInt(text, 10): the value of the longest prefix of digits, NaN when
\* there is none.  (The model's texts hold no sign and no white space.)
RECURSIVE parseDigits(_, _, _)
parseDigits(text, i, acc) ==
    IF i > Len(text) \/ text[i] \notin DigitSet
    THEN [count |-> i - 1, n |-> acc]
    ELSE parseDigits(text, i + 1, acc * 10 + DigitValue(text[i]))

parseInt(text) ==
    LET p == parseDigits(text, 1, 0) IN [nan |-> p.count = 0, n |-> p.n]

\* String(n) of a non-negative integer: its decimal digits.
RECURSIVE numberToString(_)
numberToString(n) ==
    IF n < 10 THEN <<Digits[n + 1]>>
    ELSE Append(numberToString(n \div 10), Digits[(n % 10) + 1])

\* The comparison as one of texts: String(otp) === inputOTP.
matchesOtpAsText(inputOTP, otp) == inputOTP.str = numberToString(otp)

\* parseInt(inputOTP, 10) === otp
matchesOtp(inputOTP, otp) ==
    LET parsed == parseInt(inputOTP.str) IN ~parsed.nan /\ parsed.n = otp

Verified == [success |-> TRUE, message |-> "TOTP verified"]
Invalid == [success |-> FALSE, message |-> "Invalid TOTP"]

(***************************************************************************)
(* The loop of verifyTOTP from offset i on.  tried is the list of the      *)
(* counters handed to _generateTOTP so far.                                *)
(***************************************************************************)
RECURSIVE verifyLoop(_, _, _, _, _, _, _)
verifyLoop(e, table, currentCounter, inputOTP, i, last, tried) ==
    IF i > last THEN [result |-> Return(Invalid), tried |-> tried]
    ELSE LET counter == currentCounter + i
             otp == _generateTOTP(e, table, counter)
             sofar == Append(tried, counter)
         IN IF otp.kind = "throw" THEN [result |-> otp, tried |-> sofar]
            ELSE IF matchesOtp(inputOTP, otp.value)
                 THEN [result |-> Return(Verified), tried |-> sofar]
            ELSE verifyLoop(e, table, currentCounter, inputOTP, i + 1, last, sofar)

\* The loop ending one offset early: i < this.window.
verifyTOTPShort(e, table, currentTime, inputOTP) ==
    IF ~inputFormatOk(inputOTP)
    THEN [result |-> Throw("TypeError"), tried |-> <<>>]
    ELSE verifyLoop(e, table, counterAt(e, currentTime), inputOTP,
                    -e.window, e.window - 1, <<>>)

verifyTOTP(e, table, currentTime, inputOTP) ==
    IF ~inputFormatOk(inputOTP)
    THEN [result |-> Throw("TypeError"), tried |-> <<>>]
    ELSE verifyLoop(e, table, counterAt(e, currentTime), inputOTP,
                    -e.window, e.window, <<>>)

(***************************************************************************)
(* The instance and the records of the calls.                              *)
(***************************************************************************)
NoEngine ==
    [constructed |-> FALSE, secret |-> <<>>, window |-> 0, interval |-> 0,
     otpLength |-> 0, algorithm |-> "none"]
NoCtor == [called |-> FALSE, secret |-> <<>>, result |-> Return("none")]
NoGen == [called |-> FALSE, result |-> Return(0), tried |-> <<>>]
NoVer ==
    [called |-> FALSE, input |-> NullInput,
     result |-> Return(Invalid), tried |-> <<>>]
NoTrunc == [done |-> FALSE, offset |-> 0, binaryCode |-> 0, code |-> 0]

\* new TOTP(secret, window, interval, otpLength, algorithm)
constructor(secret, window, interval, otpLength, algorithm) ==
    IF ~_isValidSecret(secret) THEN Throw("InvalidSecretError")
    ELSE Return([constructed |-> TRUE, secret |-> secret, window |-> window,
                 interval |-> interval, otpLength |-> otpLength,
                 algorithm |-> algorithm])

Windows == 0..MaxWindow

\* The calls of the constructor: new TOTP(secret) with every text, and
\* calls with one valid text in which the window and the interval, the
\* length of the code, or the algorithm are given.
CtorCalls ==
    {<<s, DefaultWindow, DefaultInterval, DefaultOtpLength, DefaultAlgorithm>> :
        s \in SecretTexts}
    \cup {<<ExampleSecret, w, i, DefaultOtpLength, DefaultAlgorithm>> :
        w \in Windows, i \in {DefaultInterval, 2 * DefaultInterval}}
    \cup {<<ExampleSecret, DefaultWindow, DefaultInterval, n, DefaultAlgorithm>> :
        n \in OtpLengths}
    \cup {<<ExampleSecret, DefaultWindow, DefaultInterval, DefaultOtpLength, a>> :
        a \in Algorithms}

\* The readings of the clock: every 30 seconds from the epoch on.
ClockReadings == {k * 30000 : k \in 0..MaxTicks}
MaxReading == MaxTicks * 30000

\* The counters _generateTOTP can be asked for without an error.
Counters(interval, window) == 0..((MaxReading \div (1000 * interval)) + window)

\* The texts handed to verifyTOTP: the codes 0, 1, 10 and 11 in decimal,
\* as they are and with leading zeros, the empty text, and texts with a
\* character that is no digit.
RECURSIVE zeroPadded(_, _)
zeroPadded(text, n) ==
    IF Len(text) > n THEN {}
    ELSE {text} \cup zeroPadded(<<"0">> \o text, n)

InputTexts ==
    UNION {zeroPadded(numberToString(n), MaxInputLen) : n \in {0, 1, 10, 11}}
    \cup {<<>>, <<"a">>, <<"1", "a">>}

(***************************************************************************)
(* The actions.  No method of the class awaits or yields: a call runs to   *)
(* its end before another starts.                                          *)
(***************************************************************************)
Init ==
    /\ engine = NoEngine
    /\ now = 0
    /\ hmacTable = <<>>
    /\ ctor = NoCtor
    /\ lastGen = NoGen
    /\ lastVer = NoVer
    /\ digest = <<>>
    /\ trunc = NoTrunc

Construct ==
    /\ ~engine.constructed
    /\ \E c \in CtorCalls :
          LET r == constructor(c[1], c[2], c[3], c[4], c[5])
          IN /\ ctor' = [called |-> TRUE, secret |-> c[1],
                         result |-> IF r.kind = "throw" THEN r ELSE Return("TOTP")]
             /\ IF r.kind = "throw"
                THEN UNCHANGED <<engine, hmacTable>>
                ELSE /\ engine' = r.value
                     /\ hmacTable' \in [Counters(c[3], c[2]) -> DigestIds]
    /\ UNCHANGED <<now, lastGen, lastVer, digest, trunc>>

\* generateTOTP with a side effect on the instance: it narrows the window.
GenerateTOTPNarrowing ==
    /\ engine.constructed
    /\ LET r == generateTOTP(engine, hmacTable, now)
       IN lastGen' = [called |-> TRUE, result |-> r.result, tried |-> r.tried]
    /\ engine' = [engine EXCEPT !.window = 0]
    /\ UNCHANGED <<now, hmacTable, ctor, lastVer, digest, trunc>>

GenerateTOTP ==
    /\ engine.constructed
    /\ LET r == generateTOTP(engine, hmacTable, now)
       IN lastGen' = [called |-> TRUE, result |-> r.result, tried |-> r.tried]
    /\ UNCHANGED <<engine, now, hmacTable, ctor, lastVer, digest, trunc>>

\* What the caller passes: a text, null, or the number generateTOTP returned.
VerifyInputs ==
    {StringInput(s) : s \in InputTexts} \cup {NullInput}
    \cup (IF lastGen.called /\ lastGen.result.kind = "return"
          THEN {NumberInput(lastGen.result.value)} ELSE {})

VerifyTOTP ==
    /\ engine.constructed
    /\ \E inputOTP \in VerifyInputs :
          LET r == verifyTOTP(engine, hmacTable, now, inputOTP)
          IN lastVer' = [called |-> TRUE, input |-> inputOTP,
                         result |-> r.result, tried |-> r.tried]
    /\ UNCHANGED <<engine, now, hmacTable, ctor, lastGen, digest, trunc>>

\* The clock moves on.  lastGen and lastVer are the calls made at the
\* current reading: those of an earlier reading are dropped.
Tick ==
    /\ \E t \in ClockReadings : t > now /\ now' = t
    /\ lastGen' = NoGen
    /\ lastVer' = NoVer
    /\ UNCHANGED <<engine, hmacTable, ctor, digest, trunc>>

Next == Construct \/ GenerateTOTP \/ VerifyTOTP \/ Tick

Spec == Init /\ [][Next]_vars

(***************************************************************************)
(* The truncation on its own: a digest of a bounded family, and one step   *)
(* that applies lines 60-65 to it.                                         *)
(***************************************************************************)
ByteValues == <<0, 1, 127, 128, 255>>
LastBytes == (0..15) \cup (240..255)
TruncOtpLengths == {1, DefaultOtpLength, 8, 9}

\* The digest whose byte i is ByteValues[(seed + step * i) mod 5], and whose
\* last byte is last.
FamilyDigest(algorithm, last, seed, step) ==
    LET n == DigestLen(algorithm)
    IN [i \in 0..(n - 1) |->
          IF i = n - 1 THEN last
          ELSE ByteValues[((seed + step * i) % Len(ByteValues)) + 1]]

DigestFamily(algorithm) ==
    {FamilyDigest(algorithm, last, seed, step) :
        last \in LastBytes, seed \in 0..(Len(ByteValues) - 1), step \in {1, 3}}

InitTrunc ==
    /\ \E n \in TruncOtpLengths, a \in Algorithms :
          /\ engine = constructor(ExampleSecret, DefaultWindow, DefaultInterval, n, a).value
          /\ digest \in DigestFamily(a)
    /\ now = 0
    /\ hmacTable = <<>>
    /\ ctor = NoCtor
    /\ lastGen = NoGen
    /\ lastVer = NoVer
    /\ trunc = NoTrunc

Truncate ==
    /\ ~trunc.done
    /\ trunc' = [done |-> TRUE, offset |-> truncOffset(digest),
                 binaryCode |-> binaryCode(digest),
                 code |-> truncate(digest, engine.otpLength)]
    /\ UNCHANGED <<engine, now, hmacTable, ctor, lastGen, lastVer, digest>>

SpecTrunc == InitTrunc /\ [][Truncate]_vars

(***************************************************************************)
(* The vocabulary of the properties.                                       *)
(***************************************************************************)
IsDigitText(text) == Len(text) >= 1 /\ \A i \in 1..Len(text) : text[i] \in DigitSet

RECURSIVE DecimalValue(_)
DecimalValue(text) ==
    IF text = <<>> THEN 0
    ELSE DecimalValue(SubSeq(text, 1, Len(text) - 1)) * 10 + DigitValue(text[Len(text)])

MatchesSecretPattern(text) ==
    \E k \in 1..Len(text) :
        /\ \A i \in 1..k : text[i] \in Base32Chars
        /\ \A i \in (k + 1)..Len(text) : text[i] = "="

IsVerified(r) == r.kind = "return" /\ r.value = Verified
IsInvalid(r) == r.kind = "return" /\ r.value = Invalid
SameOutcome(r1, r2) ==
    /\ r1.kind = r2.kind
    /\ r1.error = r2.error
    /\ (r1.kind = "return" => r1.value = r2.value)

\* The verifyTOTP call on record was handed a text of digits.
VerDigits == lastVer.called /\ lastVer.input.type = "string" /\ IsDigitText(lastVer.input.str)
VerValue == DecimalValue(lastVer.input.str)
VerCounter == counterAt(engine, now)

\* The code of counter c under the instance's key, for a counter c >= 0.
hotp(c) == CodeTable[engine.algorithm, hmacTable[c], engine.otpLength]

\* The counters of the window of the verifyTOTP call on record, oldest
\* first, and those of them that have a code.
WindowCounters ==
    [k \in 1..(2 * engine.window + 1) |-> VerCounter - engine.window + k - 1]
WindowMatches ==
    {k \in DOMAIN WindowCounters :
        WindowCounters[k] >= 0 /\ hotp(WindowCounters[k]) = VerValue}

(***************************************************************************)
(* C1.  Window symmetry: for every clock reading T, when generateTOTP at T *)
(* returns the code C for the counter k, and verifyTOTP was called with C  *)
(* in decimal at a clock reading whose counter lies in [k - w, k + w], the *)
(* verification succeeded.                                                 *)
(***************************************************************************)
GeneratedAt(T) == generateTOTP(engine, hmacTable, T).result
InWindowOf(T) ==
    /\ VerCounter >= counterAt(engine, T) - engine.window
    /\ VerCounter <= counterAt(engine, T) + engine.window

WindowSymmetry ==
    lastVer.called =>
        \A T \in ClockReadings :
            (/\ GeneratedAt(T).kind = "return"
             /\ lastVer.input = StringInput(numberToString(GeneratedAt(T).value))
             /\ InWindowOf(T))
            => IsVerified(lastVer.result)

\* The same for the calls whose window does not reach below counter 0.
WindowSymmetryFromWindowOn ==
    (lastVer.called /\ VerCounter >= engine.window) =>
        \A T \in ClockReadings :
            (/\ GeneratedAt(T).kind = "return"
             /\ lastVer.input = StringInput(numberToString(GeneratedAt(T).value))
             /\ InWindowOf(T))
            => IsVerified(lastVer.result)

(***************************************************************************)
(* C2.  Boundary, as claimed: with window = 0 only the code of the current *)
(* counter c succeeds, and a code of counter c - 1 or c + 1 is rejected.   *)
(***************************************************************************)
BoundaryRejectsNeighbours ==
    (VerDigits /\ engine.window = 0)
    => /\ IsVerified(lastVer.result) => VerValue = hotp(VerCounter)
       /\ \A d \in {VerCounter - 1, VerCounter + 1} \cap DOMAIN hmacTable :
             VerValue = hotp(d) => IsInvalid(lastVer.result)

(***************************************************************************)
(* C2, amended.  With window = 0 verifyTOTP succeeds exactly for the texts *)
(* whose value is the code of the current counter c and answers Invalid    *)
(* TOTP for every other text of digits; so a code of counter c - 1 or      *)
(* c + 1 is rejected unless it is the code of counter c as well.           *)
(***************************************************************************)
BoundaryExactCounter ==
    (VerDigits /\ engine.window = 0)
    => /\ IsVerified(lastVer.result) <=> VerValue = hotp(VerCounter)
       /\ IsInvalid(lastVer.result) <=> VerValue # hotp(VerCounter)
       /\ \A d \in {VerCounter - 1, VerCounter + 1} \cap DOMAIN hmacTable :
             (VerValue = hotp(d) /\ hotp(d) # hotp(VerCounter))
             => IsInvalid(lastVer.result)

BoundaryWitness ==
    /\ VerDigits /\ engine.window = 0
    /\ VerCounter + 1 \in DOMAIN hmacTable
    /\ VerValue = hotp(VerCounter + 1)
    /\ hotp(VerCounter + 1) # hotp(VerCounter)
    /\ IsInvalid(lastVer.result)

(***************************************************************************)
(* C3.  The documented usage: the value generateTOTP returned, handed to   *)
(* verifyTOTP as it is at the same reading of the clock, is verified.      *)
(***************************************************************************)
UsageRoundTrip ==
    (/\ lastGen.called /\ lastGen.result.kind = "return"
     /\ lastVer.called
     /\ lastVer.input = NumberInput(lastGen.result.value))
    => IsVerified(lastVer.result)

SecretFailure(r) == r.kind = "throw" /\ r.error \in {"InvalidSecretError", "Error"}

WrongCodeNeverThrows ==
    (VerDigits /\ WindowMatches = {}) => IsInvalid(lastVer.result)

\* The same for the calls whose window does not reach below counter 0.
WrongCodeFromWindowOn ==
    (VerDigits /\ WindowMatches = {} /\ VerCounter >= engine.window)
    => IsInvalid(lastVer.result)

(***************************************************************************)
(* C7.  The comparison is one of numbers: every text of digits with the    *)
(* same value as the text verifyTOTP was called with gets the same         *)
(* outcome at the same clock reading, whatever its leading zeros.          *)
(***************************************************************************)
NumericEquality ==
    VerDigits =>
        \A t \in InputTexts :
            (IsDigitText(t) /\ DecimalValue(t) = VerValue)
            => SameOutcome(verifyTOTP(engine, hmacTable, now, StringInput(t)).result,
                           lastVer.result)

NumericEqualityWitness ==
    /\ VerDigits
    /\ lastVer.input.str = <<"0", "1">>
    /\ IsVerified(lastVer.result)

(***************************************************************************)
(* C8.  The instance is stateless after construction: no call changes one  *)
(* of its five fields, and whatever calls came in between, the outcome of  *)
(* a call is the one the call has on its own at its clock reading.         *)
(***************************************************************************)
CallsIndependent ==
    /\ lastGen.called =>
          SameOutcome(lastGen.result,
                      generateTOTP(engine, hmacTable, now).result)
    /\ lastVer.called =>
          SameOutcome(lastVer.result,
                      verifyTOTP(engine, hmacTable, now, lastVer.input).result)

StatelessEngine ==
    /\ []CallsIndependent
    /\ [][engine.constructed => engine' = engine]_vars

StatelessWitness ==
    /\ lastGen.called /\ lastVer.called
    /\ now > 0
    /\ engine.window = 1
    /\ IsVerified(lastVer.result)

(***************************************************************************)
(* C9.  verifyTOTP derives the counters c - w, ..., c + w in ascending     *)
(* order up to the first whose code is the value of the input and no       *)
(* further, and succeeds exactly when some counter of the window has that  *)
(* code.                                                                   *)
(***************************************************************************)
FirstMatch ==
    IF WindowMatches = {} THEN 2 * engine.window + 1
    ELSE CHOOSE k \in WindowMatches : \A j \in WindowMatches : k <= j

WindowScanOrder ==
    VerDigits =>
        /\ lastVer.tried = SubSeq(WindowCounters, 1, FirstMatch)
        /\ IsVerified(lastVer.result) <=> WindowMatches # {}
        /\ IsInvalid(lastVer.result) <=> WindowMatches = {}

\* The same for the calls whose window does not reach below counter 0.
WindowScanOrderFromWindowOn ==
    (VerDigits /\ VerCounter >= engine.window) =>
        /\ lastVer.tried = SubSeq(WindowCounters, 1, FirstMatch)
        /\ IsVerified(lastVer.result) <=> WindowMatches # {}
        /\ IsInvalid(lastVer.result) <=> WindowMatches = {}

(***************************************************************************)
(* C10.  Dynamic truncation: the offset is the low nibble of the last      *)
(* byte, so the four bytes from it on lie inside a digest of 20, 32 or 64  *)
(* bytes; the binary code is their big-endian value without the top bit    *)
(* of the first, a number in 0 .. 2^31 - 1; the code is the binary code    *)
(* modulo 10^otpLength, a number in 0 .. 10^otpLength - 1.                 *)
(***************************************************************************)
TruncationInRange ==
    trunc.done =>
        LET n == DigestLength(digest)
            o == trunc.offset
        IN /\ n \in {20, 32, 64}
           /\ o = digest[n - 1] % 16
           /\ o \in 0..15 /\ o + 3 <= n - 1
           /\ trunc.binaryCode =
                 (digest[o] % 128) * 16777216 + digest[o + 1] * 65536
                 + digest[o + 2] * 256 + digest[o + 3]
           /\ trunc.binaryCode >= 0 /\ trunc.binaryCode <= 2147483647
           /\ trunc.code = trunc.binaryCode % (10 ^ engine.otpLength)
           /\ trunc.code >= 0 /\ trunc.code < 10 ^ engine.otpLength

TruncationWitness ==
    /\ trunc.done
    /\ DigestLength(digest) = 20
    /\ trunc.offset = 15
    /\ digest[trunc.offset] >= 128
    /\ trunc.code > 0

=============================================================================
